---------------------------- MODULE Spec2Model ----------------------------
(***************************************************************************)
(* The image transformation pipeline of src/components/ImageEditor.js:     *)
(* the React state of the ImageEditor component, its event handlers, and   *)
(* the asynchronous continuations of handleEdit and handleUpscale.         *)
(*                                                                         *)
(* Text is modelled as a sequence of tokens.  The characters the code      *)
(* inspects (",", ":" and ";") are tokens of their own; every other token  *)
(* stands for a run of characters free of those three.  null and           *)
(* undefined are two reserved one-token texts.                             *)
(***************************************************************************)
EXTENDS Integers, Sequences, FiniteSets, TLC

(* ------------------------------ bounds --------------------------------- *)

\* Number of stage runs (handleEdit or handleUpscale calls that suspend at an
\* await) started in one behaviour: MaxRuns when the handlers are called in
\* any state, so that the runs overlap freely; MaxRunsUI when they are
\* called through the rendered controls.
MaxRuns == 2
MaxRunsUI == 3

\* Number of stage runs when the handlers are called in any state on one
\* file and without a crop: enough for two overlapping upscale runs.
MaxRaceRuns == 3

\* Length, in tokens, of the texts the data-URI split is applied to on its
\* own: five tokens make up a header with a type, a comma and a payload.
MaxUriLen == 5

\* Lengths, in tokens, of the payloads and MIME types a data URI is built
\* from: "type;parameter" takes three tokens.
MaxPayloadLen == 2
MaxMimeLen == 3

\* The pixel crop ReactCrop reports is a number, not a whole number: where
\* getCroppedImg's drawing is applied on its own, the crop's lengths are
\* counted in 1/SubPixels of a pixel.
SubPixels == 2

(* ------------------------------ values --------------------------------- *)

Null == <<"<null>">>
Undefined == <<"<undefined>">>
EmptyString == <<>>

\* JavaScript truthiness of a text value (or null / undefined).
Truthy(v) == v # Null /\ v # Undefined /\ v # EmptyString

\* a || b
OrElse(a, b) == IF Truthy(a) THEN a ELSE b

\* The messages of the handlers, in English (the source has them in Persian).
MsgNoImage == <<"Please upload an image first.">>
MsgNoPrompt == <<"Please enter the edit instruction.">>
MsgEditFallback == <<"An unexpected error occurred.">>
MsgNothingToUpscale == <<"There is no edited image to upscale.">>
MsgInvalidFormat == <<"The edited image format is invalid.">>
MsgUpscaleFallback == <<"An unexpected error occurred while upscaling.">>
MsgNo2d == <<"No 2d context">>
MsgCanvas == <<"Could not convert canvas to base64.">>

PNG == <<"image/png">>

(* ----------------------------- data URIs ------------------------------- *)

\* `data:image/png;base64,${bytes}`
PngDataUri(bytes) == <<"data", ":">> \o PNG \o <<";", "base64", ",">> \o bytes

\* `data:${mime};base64,${bytes}`: the text of line 104 and line 139 for
\* any type in the place of image/png.
DataUri(mime, bytes) == <<"data", ":">> \o mime \o <<";", "base64", ",">> \o bytes

\* Index of the first occurrence of token c in s at or after position from,
\* 0 when there is none.
RECURSIVE IndexFrom(_, _, _)
IndexFrom(s, c, from) ==
  IF from > Len(s) THEN 0
  ELSE IF s[from] = c THEN from
  ELSE IndexFrom(s, c, from + 1)

\* s.split(',')[0]
SplitHeader(s) ==
  LET i == IndexFrom(s, ",", 1)
  IN IF i = 0 THEN s ELSE SubSeq(s, 1, i - 1)

\* s.split(',')[1]
SplitData(s) ==
  LET i == IndexFrom(s, ",", 1)
  IN IF i = 0 THEN Undefined
     ELSE LET j == IndexFrom(s, ",", i + 1)
          IN IF j = 0 THEN SubSeq(s, i + 1, Len(s)) ELSE SubSeq(s, i + 1, j - 1)

\* header.match(/:(.*?);/) ? match[1] : 'image/png'
MimeOf(header) ==
  LET i == IndexFrom(header, ":", 1)
      j == IF i = 0 THEN 0 ELSE IndexFrom(header, ";", i + 1)
  IN IF i = 0 \/ j = 0 THEN PNG ELSE SubSeq(header, i + 1, j - 1)

\* Mutant: only the header is checked.
DecodeDataUriHeaderOnly(uri, failMsg) ==
  LET header == SplitHeader(uri)
      data == SplitData(uri)
  IN IF ~Truthy(header)
     THEN [ok |-> FALSE, base64 |-> Null, mimeType |-> Null, message |-> failMsg]
     ELSE [ok |-> TRUE, base64 |-> data, mimeType |-> MimeOf(header), message |-> Null]

\* The header/data split with its check: the {base64, mimeType} pair, or the
\* failure with the given message.
DecodeDataUri(uri, failMsg) ==
  LET header == SplitHeader(uri)
      data == SplitData(uri)
  IN IF ~Truthy(header) \/ ~Truthy(data)
     THEN [ok |-> FALSE, base64 |-> Null, mimeType |-> Null, message |-> failMsg]
     ELSE [ok |-> TRUE, base64 |-> data, mimeType |-> MimeOf(header), message |-> Null]


(* --------------------------- collaborators ----------------------------- *)

Files == {<<"F1">>, <<"F2">>}

\* file.type of the selectable files
FileMime(file) == IF file = <<"F1">> THEN <<"image/jpeg">> ELSE PNG

Prompts == {EmptyString, <<"remove the background person">>}

\* The message property of a thrown or rejected value: a text, an empty
\* text, or missing.
ErrMessages == {Undefined, EmptyString, <<"request failed">>}

\* What editImage and upscaleImage resolve with.
RemoteBytes == {<<"iVBORw0KGgo">>, EmptyString}

\* fileToBase64(file): resolves with the file's base64 text and its declared
\* MIME type, or rejects.
FileToBase64Outcomes(file) ==
  {[ok |-> TRUE, base64 |-> <<"base64-of-">> \o file, mimeType |-> FileMime(file),
    message |-> Null]}
  \cup {[ok |-> FALSE, base64 |-> Null, mimeType |-> Null, message |-> m] :
          m \in ErrMessages}

\* editImage(base64, mimeType, prompt) and upscaleImage(base64, mimeType):
\* resolve with bytes or reject with an error.
RemoteOutcomes ==
  {[ok |-> TRUE, bytes |-> b, message |-> Null] : b \in RemoteBytes}
  \cup {[ok |-> FALSE, bytes |-> Null, message |-> m] : m \in ErrMessages}

\* completedCrop: undefined, or the pixel crop ReactCrop reports.
NoCrop == [defined |-> FALSE, x |-> 0, y |-> 0, width |-> 0, height |-> 0]
Crops ==
  {[defined |-> TRUE, x |-> 1, y |-> 1, width |-> 2, height |-> 1],
   [defined |-> TRUE, x |-> 1, y |-> 1, width |-> 2, height |-> 0],
   [defined |-> TRUE, x |-> 1, y |-> 1, width |-> 0, height |-> 0]}

\* What canvas.toDataURL('image/png') returns: a PNG data URI, or "data:,"
\* for a canvas without pixels.
CanvasDataUrls == {PngDataUri(<<"canvas-pixels">>), <<"data", ":", ",">>}

\* getCroppedImg(image, crop), given whether getContext('2d') returned a
\* context and what toDataURL returned: the settled value of its promise.
getCroppedImg(cropRegion, ctx, dataUrl) ==
  IF ~ctx
  THEN [ok |-> FALSE, base64 |-> Null, mimeType |-> Null, message |-> MsgNo2d]
  ELSE DecodeDataUri(dataUrl, MsgCanvas)

\* What the promise of getCroppedImg(image, crop) can settle with, for each
\* crop: with or without a 2d context, and for each value of toDataURL.
CroppedImgOutcomes ==
  [c \in Crops |->
     {getCroppedImg(c, ctx, u) : ctx \in BOOLEAN, u \in CanvasDataUrls}]

Pending == [ok |-> FALSE, base64 |-> Null, mimeType |-> Null, message |-> Null]

(* ------------------------------- state --------------------------------- *)

VARIABLES
  prompt,         \* useState('')
  originalImage,  \* useState(null): the selected file, or null
  editedImage,    \* useState(null): data URI text, or null
  isLoading,      \* useState(false)
  error,          \* useState(null)
  upscaledImage,  \* useState(null)
  isUpscaling,    \* useState(false)
  upscaleError,   \* useState(null)
  imgRef,         \* useRef(null): TRUE when the preview <img> is mounted
  completedCrop,  \* useState(); the percent crop of line 58 only feeds ReactCrop
  editRuns,       \* suspended handleEdit calls
  upscaleRuns,    \* suspended handleUpscale calls
  nextRun,        \* number of the next stage run
  editedFrom,     \* history: the run and file editedImage came from
  upscaledFrom,   \* history: the edit run and file upscaledImage came from
  editSucceeded,  \* history: some editImage call has resolved
  lastResolved,   \* history: the latest-started run of each stage whose remote
                  \* call has resolved, and the run that stored upscaledImage
  overlapped,     \* history, per stage: a call has passed validation while
                  \* another call of the stage was suspended
  codecIO,        \* the data-URI conversions applied on their own
  rasterIO        \* getCroppedImg's drawing applied on its own

vars == <<prompt, originalImage, editedImage, isLoading, error, upscaledImage,
          isUpscaling, upscaleError, imgRef, completedCrop, editRuns,
          upscaleRuns, nextRun, editedFrom, upscaledFrom, editSucceeded,
          lastResolved, overlapped, codecIO, rasterIO>>

editVars == <<editedImage, isLoading, error>>
upscaleVars == <<upscaledImage, isUpscaling, upscaleError>>
inputVars == <<prompt, originalImage, imgRef, completedCrop>>
pureVars == <<codecIO, rasterIO>>
auxVars == <<lastResolved, overlapped, pureVars>>

NoOrigin == [run |-> 0, file |-> Null]
NoneResolved == [edit |-> 0, upscale |-> 0, upscaledBy |-> 0]
NoOverlap == [edit |-> FALSE, upscale |-> FALSE]
NoConversion == [stage |-> "none"]
NoDrawing == [stage |-> "none"]

Max(a, b) == IF a >= b THEN a ELSE b

\* The component after its first render.
InitComponent ==
  /\ prompt = EmptyString
  /\ originalImage = Null
  /\ editedImage = Null
  /\ isLoading = FALSE
  /\ error = Null
  /\ upscaledImage = Null
  /\ isUpscaling = FALSE
  /\ upscaleError = Null
  /\ imgRef = FALSE
  /\ completedCrop = NoCrop
  /\ editRuns = {}
  /\ upscaleRuns = {}
  /\ nextRun = 1
  /\ editedFrom = NoOrigin
  /\ upscaledFrom = NoOrigin
  /\ editSucceeded = FALSE
  /\ lastResolved = NoneResolved
  /\ overlapped = NoOverlap

Init == InitComponent /\ codecIO = NoConversion /\ rasterIO = NoDrawing

(* ------------------------------ handlers ------------------------------- *)

\* textarea onChange
setPrompt(p) ==
  /\ prompt' = p
  /\ UNCHANGED <<originalImage, imgRef, completedCrop, editVars, upscaleVars,
                 editRuns, upscaleRuns, nextRun, editedFrom, upscaledFrom,
                 editSucceeded, auxVars>>

\* file is event.target.files[0], or null when nothing was chosen
handleFileChange(file) ==
  /\ IF file # Null
     THEN /\ originalImage' = file
          /\ editedImage' = Null
          /\ error' = Null
          /\ upscaledImage' = Null
          /\ upscaleError' = Null
          /\ completedCrop' = NoCrop
          /\ imgRef' = TRUE
          /\ editedFrom' = NoOrigin
          /\ upscaledFrom' = NoOrigin
     ELSE UNCHANGED <<originalImage, editedImage, error, upscaledImage,
                      upscaleError, completedCrop, imgRef, editedFrom,
                      upscaledFrom>>
  /\ UNCHANGED <<prompt, isLoading, isUpscaling, editRuns, upscaleRuns,
                 nextRun, editSucceeded, auxVars>>

\* ReactCrop onComplete; ReactCrop is rendered only with an image
setCompletedCrop(c) ==
  /\ originalImage # Null
  /\ completedCrop' = c
  /\ UNCHANGED <<prompt, originalImage, imgRef, editVars, upscaleVars,
                 editRuns, upscaleRuns, nextRun, editedFrom, upscaledFrom,
                 editSucceeded, auxVars>>

\* Mutant: clearing the crop clears the edit error as well.
handleClearCropClearsError ==
  /\ completedCrop' = NoCrop
  /\ error' = Null
  /\ UNCHANGED <<prompt, originalImage, imgRef, editedImage, isLoading,
                 upscaleVars, editRuns, upscaleRuns, nextRun, editedFrom,
                 upscaledFrom, editSucceeded, auxVars>>

\* setCrop(undefined); setCompletedCrop(undefined);
handleClearCrop ==
  /\ completedCrop' = NoCrop
  /\ UNCHANGED <<prompt, originalImage, imgRef, editVars, upscaleVars,
                 editRuns, upscaleRuns, nextRun, editedFrom, upscaledFrom,
                 editSucceeded, auxVars>>

(* ------------------------------ handleEdit ----------------------------- *)

\* Mutant: the prompt is checked before the image.
EditValidationPromptFirst ==
  IF ~Truthy(prompt) THEN MsgNoPrompt
  ELSE IF originalImage = Null THEN MsgNoImage
  ELSE Null

\* if (!originalImage) ... if (!prompt) ...: the message of the failed
\* check, or null when both pass.
EditValidation ==
  IF originalImage = Null THEN MsgNoImage
  ELSE IF ~Truthy(prompt) THEN MsgNoPrompt
  ELSE Null

\* Mutant: the height of the crop is not looked at.
UseCropIgnoresHeight ==
  completedCrop.defined /\ completedCrop.width > 0 /\ imgRef

\* completedCrop && completedCrop.width > 0 && completedCrop.height > 0
\*   && imgRef.current
UseCrop ==
  completedCrop.defined /\ completedCrop.width > 0 /\ completedCrop.height > 0
  /\ imgRef

\* Mutant: the entry keeps the previous edited image.
EditEntryOwnKeepsResult ==
  /\ isLoading' = TRUE
  /\ error' = Null
  /\ UNCHANGED <<editedImage, editedFrom>>

\* Mutant: the entry keeps the previous error.
EditEntryOwnKeepsError ==
  /\ isLoading' = TRUE
  /\ editedImage' = Null
  /\ editedFrom' = NoOrigin
  /\ UNCHANGED error

\* setIsLoading(true); setError(null); setEditedImage(null);
EditEntryOwn ==
  /\ isLoading' = TRUE
  /\ error' = Null
  /\ editedImage' = Null
  /\ editedFrom' = NoOrigin

\* setUpscaledImage(null); setUpscaleError(null);
EditEntryDownstream ==
  /\ upscaledImage' = Null
  /\ upscaleError' = Null
  /\ upscaledFrom' = NoOrigin
  /\ UNCHANGED isUpscaling

\* The call suspended at the first await, with what it has captured: the
\* promise it awaits (getCroppedImg of the crop, or fileToBase64 of the
\* file) and the prompt of this render.
NewEditRun ==
  [id |-> nextRun, stage |-> "encode",
   path |-> IF UseCrop THEN "crop" ELSE "file",
   crop |-> IF UseCrop THEN completedCrop ELSE NoCrop,
   file |-> originalImage, prompt |-> prompt, img |-> Pending]

\* handleEdit up to its first await.
handleEdit ==
  IF EditValidation # Null
  THEN /\ error' = EditValidation
       /\ UNCHANGED <<inputVars, editedImage, isLoading, upscaleVars, editRuns,
                      upscaleRuns, nextRun, editedFrom, upscaledFrom,
                      editSucceeded, auxVars>>
  ELSE /\ EditEntryOwn
       /\ EditEntryDownstream
       /\ editRuns' = editRuns \cup {NewEditRun}
       /\ nextRun' = nextRun + 1
       /\ overlapped' = [overlapped EXCEPT !.edit = @ \/ editRuns # {}]
       /\ UNCHANGED <<inputVars, upscaleRuns, editSucceeded, lastResolved,
                      pureVars>>

\* Mutant: the message is shown as it is, without the fallback.
EditCatchNoFallback(message) ==
  /\ error' = message
  /\ isLoading' = FALSE
  /\ UNCHANGED <<editedImage, editedFrom>>

\* catch (err) { setError(err.message || fallback) } finally { setIsLoading(false) }
EditCatch(message) ==
  /\ error' = OrElse(message, MsgEditFallback)
  /\ isLoading' = FALSE
  /\ UNCHANGED <<editedImage, editedFrom>>

\* Mutant: the result of a run is dropped when a run started after it has
\* already resolved.
EditStoreUnlessStale(r, bytes) ==
  IF lastResolved.edit > r.id
  THEN isLoading' = FALSE /\ UNCHANGED <<editedImage, editedFrom, error>>
  ELSE /\ editedImage' = PngDataUri(bytes)
       /\ isLoading' = FALSE
       /\ editedFrom' = [run |-> r.id, file |-> r.file]
       /\ UNCHANGED error

\* setEditedImage(`data:image/png;base64,${editedImageBytes}`); finally
EditStore(r, bytes) ==
  /\ editedImage' = PngDataUri(bytes)
  /\ isLoading' = FALSE
  /\ editedFrom' = [run |-> r.id, file |-> r.file]
  /\ UNCHANGED error

\* What the awaited promise of run r settles with.  getCroppedImg has no
\* await of its own: it ran at the invocation, on the crop of the
\* invocation, and nothing reads its value before this await resumes.
EncodeOutcomes(r) ==
  IF r.path = "crop"
  THEN CroppedImgOutcomes[r.crop]
  ELSE FileToBase64Outcomes(r.file)

\* The await of getCroppedImg / fileToBase64 resumes: editImage is called
\* with the encoded image and the prompt of the invocation, or the rejection
\* is caught.
EditEncoded(r, img) ==
  /\ r \in editRuns
  /\ r.stage = "encode"
  /\ IF img.ok
     THEN /\ editRuns' = (editRuns \ {r}) \cup {[r EXCEPT !.stage = "remote", !.img = img]}
          /\ UNCHANGED <<editVars, editedFrom>>
     ELSE /\ editRuns' = editRuns \ {r}
          /\ EditCatch(img.message)
  /\ UNCHANGED <<inputVars, upscaleVars, upscaleRuns, nextRun, upscaledFrom,
                 editSucceeded, auxVars>>

\* The await of editImage resumes.
EditSettled(r, outcome) ==
  /\ r \in editRuns
  /\ r.stage = "remote"
  /\ editRuns' = editRuns \ {r}
  /\ IF outcome.ok
     THEN /\ EditStore(r, outcome.bytes)
          /\ editSucceeded' = TRUE
          /\ lastResolved' = [lastResolved EXCEPT !.edit = Max(@, r.id)]
     ELSE /\ EditCatch(outcome.message)
          /\ UNCHANGED <<editSucceeded, lastResolved>>
  /\ UNCHANGED <<inputVars, upscaleVars, upscaleRuns, nextRun, upscaledFrom,
                 overlapped, pureVars>>

(* ----------------------------- handleUpscale --------------------------- *)

\* Mutant: the check for an edited image is missing.
UpscaleValidationSkipped == Null

\* if (!editedImage)
UpscaleValidation == IF ~Truthy(editedImage) THEN MsgNothingToUpscale ELSE Null

\* Mutant: the entry calls setError(null) as well.
UpscaleEntryClearsEditError ==
  /\ isUpscaling' = TRUE
  /\ upscaleError' = Null
  /\ upscaledImage' = Null
  /\ upscaledFrom' = NoOrigin
  /\ error' = Null
  /\ UNCHANGED <<editedImage, isLoading>>

\* setIsUpscaling(true); setUpscaleError(null); setUpscaledImage(null);
\* and no setter of the edit stage
UpscaleEntry ==
  /\ isUpscaling' = TRUE
  /\ upscaleError' = Null
  /\ upscaledImage' = Null
  /\ upscaledFrom' = NoOrigin
  /\ UNCHANGED editVars

\* The arguments of upscaleImage(data, mimeType), or the thrown error.
UpscaleInput == DecodeDataUri(editedImage, MsgInvalidFormat)

\* Mutant: the header is passed where the data belongs.
NewUpscaleRunHeaderAsData ==
  [id |-> nextRun, base64 |-> SplitHeader(editedImage),
   mimeType |-> UpscaleInput.mimeType,
   edit |-> editedFrom.run, file |-> editedFrom.file]

\* The suspended call, with the arguments it has passed to upscaleImage.
NewUpscaleRun ==
  [id |-> nextRun, base64 |-> UpscaleInput.base64,
   mimeType |-> UpscaleInput.mimeType,
   edit |-> editedFrom.run, file |-> editedFrom.file]

\* Mutant: the finally block is missing.
UpscaleCatchKeepsLoading(message) ==
  /\ upscaleError' = OrElse(message, MsgUpscaleFallback)
  /\ UNCHANGED isUpscaling

\* catch (err) { setUpscaleError(err.message || fallback) } finally
UpscaleCatch(message) ==
  /\ upscaleError' = OrElse(message, MsgUpscaleFallback)
  /\ isUpscaling' = FALSE

\* handleUpscale up to its await. A decoding failure is thrown and caught
\* before any await, so the call ends within the same step.
handleUpscale ==
  IF UpscaleValidation # Null
  THEN /\ upscaleError' = UpscaleValidation
       /\ UNCHANGED <<inputVars, editVars, upscaledImage, isUpscaling, editRuns,
                      upscaleRuns, nextRun, editedFrom, upscaledFrom,
                      editSucceeded, auxVars>>
  ELSE IF ~UpscaleInput.ok
  THEN /\ upscaledImage' = Null
       /\ upscaledFrom' = NoOrigin
       /\ UpscaleCatch(UpscaleInput.message)
       /\ overlapped' = [overlapped EXCEPT !.upscale = @ \/ upscaleRuns # {}]
       /\ UNCHANGED <<inputVars, editVars, editRuns, upscaleRuns, nextRun,
                      editedFrom, editSucceeded, lastResolved, pureVars>>
  ELSE /\ UpscaleEntry
       /\ upscaleRuns' = upscaleRuns \cup {NewUpscaleRun}
       /\ nextRun' = nextRun + 1
       /\ overlapped' = [overlapped EXCEPT !.upscale = @ \/ upscaleRuns # {}]
       /\ UNCHANGED <<inputVars, editRuns, editedFrom, editSucceeded,
                      lastResolved, pureVars>>

\* Mutant: the flag is reset only when no other upscale call is suspended.
UpscaleStoreLastResets(r, bytes) ==
  /\ upscaledImage' = PngDataUri(bytes)
  /\ isUpscaling' = (upscaleRuns \ {r} # {})
  /\ upscaledFrom' = [run |-> r.edit, file |-> r.file]
  /\ UNCHANGED upscaleError

\* setUpscaledImage(`data:image/png;base64,${upscaledImageBytes}`); finally
UpscaleStore(r, bytes) ==
  /\ upscaledImage' = PngDataUri(bytes)
  /\ isUpscaling' = FALSE
  /\ upscaledFrom' = [run |-> r.edit, file |-> r.file]
  /\ UNCHANGED upscaleError

\* The await of upscaleImage resumes.
UpscaleSettled(r, outcome) ==
  /\ r \in upscaleRuns
  /\ upscaleRuns' = upscaleRuns \ {r}
  /\ IF outcome.ok
     THEN /\ UpscaleStore(r, outcome.bytes)
          /\ lastResolved' = [lastResolved EXCEPT !.upscale = Max(@, r.id),
                                                  !.upscaledBy = r.id]
     ELSE /\ UpscaleCatch(outcome.message)
          /\ UNCHANGED <<upscaledImage, upscaledFrom, lastResolved>>
  /\ UNCHANGED <<inputVars, editVars, editRuns, nextRun, editedFrom,
                 editSucceeded, overlapped, pureVars>>

(* --------------------------- specification ----------------------------- *)

\* A call of the handler now would suspend at an await.
EditStarts == EditValidation = Null
UpscaleStarts == UpscaleValidation = Null /\ UpscaleInput.ok

\* Fewer than max runs have been started.
RunsLeft(max) == nextRun <= max

Next ==
  \/ \E p \in Prompts : setPrompt(p)
  \/ \E f \in Files \cup {Null} : handleFileChange(f)
  \/ \E c \in Crops : setCompletedCrop(c)
  \/ handleClearCrop
  \/ (EditStarts => RunsLeft(MaxRuns)) /\ handleEdit
  \/ \E r \in editRuns : \E o \in EncodeOutcomes(r) : EditEncoded(r, o)
  \/ \E r \in editRuns : \E o \in RemoteOutcomes : EditSettled(r, o)
  \/ (UpscaleStarts => RunsLeft(MaxRuns)) /\ handleUpscale
  \/ \E r \in upscaleRuns : \E o \in RemoteOutcomes : UpscaleSettled(r, o)

Spec == Init /\ [][Next]_vars

\* The awaited promise of edit run i settles and the call resumes.
EditResumes(i) ==
  \E r \in editRuns :
    /\ r.id = i
    /\ \/ \E o \in EncodeOutcomes(r) : EditEncoded(r, o)
       \/ \E o \in RemoteOutcomes : EditSettled(r, o)

\* The awaited promise of upscale run i settles and the call resumes.
UpscaleResumes(i) ==
  \E r \in upscaleRuns : r.id = i /\ \E o \in RemoteOutcomes : UpscaleSettled(r, o)

(* ------------------- the handlers behind the rendered controls --------- *)

\* edit button: disabled: isLoading || !prompt || !originalImage
EditButtonEnabled == ~isLoading /\ Truthy(prompt) /\ originalImage # Null

\* Mutant: the upscale button is not disabled while upscaling.
UpscaleButtonNeverDisabled == Truthy(editedImage) /\ ~isLoading

\* upscale button: rendered when editedImage && !isLoading, disabled: isUpscaling
UpscaleButtonEnabled == Truthy(editedImage) /\ ~isLoading /\ ~isUpscaling

\* file input and textarea: disabled: isLoading
InputsEnabled == ~isLoading

\* clear-crop button: rendered when completedCrop && completedCrop.width > 0
ClearCropRendered == completedCrop.defined /\ completedCrop.width > 0

\* The handlers as the rendered component lets the user invoke them.
NextUI ==
  \/ \E p \in Prompts : InputsEnabled /\ setPrompt(p)
  \/ \E f \in Files \cup {Null} : InputsEnabled /\ handleFileChange(f)
  \/ \E c \in Crops : setCompletedCrop(c)
  \/ ClearCropRendered /\ handleClearCrop
  \/ EditButtonEnabled /\ RunsLeft(MaxRunsUI) /\ handleEdit
  \/ \E r \in editRuns : \E o \in EncodeOutcomes(r) : EditEncoded(r, o)
  \/ \E r \in editRuns : \E o \in RemoteOutcomes : EditSettled(r, o)
  \/ UpscaleButtonEnabled /\ (UpscaleStarts => RunsLeft(MaxRunsUI)) /\ handleUpscale
  \/ \E r \in upscaleRuns : \E o \in RemoteOutcomes : UpscaleSettled(r, o)

SpecUI == Init /\ [][NextUI]_vars

(* --------------- the handlers called in any state, on one file --------- *)

RaceFiles == {<<"F1">>}

\* The handlers called in any state, as in Next, with one selectable file
\* and no crop, so that three runs can overlap.
NextRace ==
  \/ \E p \in Prompts : setPrompt(p)
  \/ \E f \in RaceFiles : handleFileChange(f)
  \/ (EditStarts => RunsLeft(MaxRaceRuns)) /\ handleEdit
  \/ \E r \in editRuns : \E o \in EncodeOutcomes(r) : EditEncoded(r, o)
  \/ \E r \in editRuns : \E o \in RemoteOutcomes : EditSettled(r, o)
  \/ (UpscaleStarts => RunsLeft(MaxRaceRuns)) /\ handleUpscale
  \/ \E r \in upscaleRuns : \E o \in RemoteOutcomes : UpscaleSettled(r, o)

SpecRace == Init /\ [][NextRace]_vars

\* Every awaited promise settles, and the event loop then resumes the call
\* that awaits it; at most MaxRaceRuns runs are started.
FairSpecRace ==
  /\ SpecRace
  /\ \A i \in 1..MaxRaceRuns :
       WF_vars(EditResumes(i)) /\ WF_vars(UpscaleResumes(i))

(* ------------- handleUpscale on any text held as edited image ---------- *)

\* The tokens of a text: the three characters the split looks at, and a run
\* of other characters.
UriTokens == {",", ":", ";", "QUJD"}

\* Every non-empty text of at most MaxUriLen tokens.
Texts == UNION {[1..n -> UriTokens] : n \in 1..MaxUriLen}

\* The component holding some text as the edited image of an edit run that
\* has resolved, with the upscale stage idle.
InitUpscale ==
  /\ prompt = <<"remove the background person">>
  /\ originalImage = <<"F1">>
  /\ imgRef = TRUE
  /\ completedCrop = NoCrop
  /\ editedImage \in Texts
  /\ isLoading = FALSE
  /\ error = Null
  /\ upscaledImage = Null
  /\ isUpscaling = FALSE
  /\ upscaleError = Null
  /\ editRuns = {}
  /\ upscaleRuns = {}
  /\ nextRun = 2
  /\ editedFrom = [run |-> 1, file |-> <<"F1">>]
  /\ upscaledFrom = NoOrigin
  /\ editSucceeded = TRUE
  /\ lastResolved = [NoneResolved EXCEPT !.edit = 1]
  /\ overlapped = NoOverlap
  /\ codecIO = NoConversion
  /\ rasterIO = NoDrawing

NextUpscale ==
  \/ (UpscaleStarts => RunsLeft(MaxRaceRuns)) /\ handleUpscale
  \/ \E r \in upscaleRuns : \E o \in RemoteOutcomes : UpscaleSettled(r, o)

SpecUpscale == InitUpscale /\ [][NextUpscale]_vars

(* ------------------- the data-URI conversions on their own ------------ *)

Payloads == UNION {[1..n -> UriTokens] : n \in 1..MaxPayloadLen}
Mimes == UNION {[1..n -> UriTokens] : n \in 0..MaxMimeLen}

\* The component as constructed, and a payload and a type to convert.
InitCodec ==
  /\ InitComponent
  /\ codecIO \in {[stage |-> "input", bytes |-> b, mime |-> m] :
                    b \in Payloads, m \in Mimes}
  /\ rasterIO = NoDrawing

\* The data URI is built from the payload and the type.
Encode ==
  /\ codecIO.stage = "input"
  /\ codecIO' = [stage |-> "encoded", bytes |-> codecIO.bytes, mime |-> codecIO.mime,
                 uri |-> DataUri(codecIO.mime, codecIO.bytes)]
  /\ UNCHANGED <<inputVars, editVars, upscaleVars, editRuns, upscaleRuns,
                 nextRun, editedFrom, upscaledFrom, editSucceeded,
                 lastResolved, overlapped, rasterIO>>

\* The data URI is split as handleUpscale and getCroppedImg split it.
Decode ==
  /\ codecIO.stage = "encoded"
  /\ codecIO' = [stage |-> "decoded", bytes |-> codecIO.bytes, mime |-> codecIO.mime,
                 uri |-> codecIO.uri,
                 out |-> DecodeDataUri(codecIO.uri, MsgInvalidFormat)]
  /\ UNCHANGED <<inputVars, editVars, upscaleVars, editRuns, upscaleRuns,
                 nextRun, editedFrom, upscaledFrom, editSucceeded,
                 lastResolved, overlapped, rasterIO>>

NextCodec == Encode \/ Decode

SpecCodec == InitCodec /\ [][NextCodec]_vars

(* --------------------- getCroppedImg's drawing on its own -------------- *)

\* n whole pixels, as a crop length.
Px(n) == n * SubPixels

RECURSIVE GCD(_, _)
GCD(a, b) == IF b = 0 THEN a ELSE GCD(b, a % b)

\* The number n / d, in lowest terms.
Rat(n, d) == LET g == GCD(n, d) IN [n |-> n \div g, d |-> d \div g]

\* crop length * (natural / displayed), in pixels:
\* crop.x * scaleX with scaleX = image.naturalWidth / image.width
Scaled(length, natural, displayed) == Rat(length * natural, SubPixels * displayed)

\* canvas.width = crop.width: the canvas keeps the number as an unsigned
\* long, its whole part.
CanvasSide(length) == length \div SubPixels

\* canvas.toDataURL('image/png'): "data:," for a canvas without pixels.
ToDataURL(canvasWidth, canvasHeight) ==
  IF canvasWidth = 0 \/ canvasHeight = 0
  THEN <<"data", ":", ",">>
  ELSE PngDataUri(<<"canvas-pixels">>)

\* The canvas getCroppedImg allocates and the drawImage call it makes on it
\* (none without a 2d context): source rectangle in pixels of the natural
\* image, destination rectangle in crop lengths.
Drawing(image, cropRegion, ctx) ==
  [canvasWidth |-> CanvasSide(cropRegion.width),
   canvasHeight |-> CanvasSide(cropRegion.height),
   drawn |-> ctx,
   sx |-> Scaled(cropRegion.x, image.naturalWidth, image.width),
   sy |-> Scaled(cropRegion.y, image.naturalHeight, image.height),
   sw |-> Scaled(cropRegion.width, image.naturalWidth, image.width),
   sh |-> Scaled(cropRegion.height, image.naturalHeight, image.height),
   dx |-> 0, dy |-> 0, dw |-> cropRegion.width, dh |-> cropRegion.height]

\* The displayed images: natural size and rendered size, in pixels.
Images ==
  {[naturalWidth |-> 800, naturalHeight |-> 600, width |-> 400, height |-> 300],
   [naturalWidth |-> 300, naturalHeight |-> 200, width |-> 400, height |-> 300]}

\* Crops with width > 0 and height > 0: whole pixels, and a fraction of a
\* pixel less or more.
RasterCrops ==
  {[x |-> x, y |-> y, width |-> w, height |-> h] :
     x \in {0, Px(10)}, y \in {Px(10), Px(10) + 1},
     w \in {1, Px(1), Px(100), Px(100) + 1}, h \in {Px(50), Px(50) + 1}}

\* The component as constructed, and an image and a crop to draw.
InitRaster ==
  /\ InitComponent
  /\ codecIO = NoConversion
  /\ rasterIO \in {[stage |-> "input", image |-> i, crop |-> c, ctx |-> ctx] :
                     i \in Images, c \in RasterCrops, ctx \in BOOLEAN}

\* getCroppedImg(image, crop) runs.
Rasterize ==
  /\ rasterIO.stage = "input"
  /\ LET d == Drawing(rasterIO.image, rasterIO.crop, rasterIO.ctx)
     IN rasterIO' =
          [stage |-> "drawn", image |-> rasterIO.image, crop |-> rasterIO.crop,
           ctx |-> rasterIO.ctx, canvas |-> d,
           out |-> getCroppedImg(rasterIO.crop, rasterIO.ctx,
                                 ToDataURL(d.canvasWidth, d.canvasHeight))]
  /\ UNCHANGED <<inputVars, editVars, upscaleVars, editRuns, upscaleRuns,
                 nextRun, editedFrom, upscaledFrom, editSucceeded,
                 lastResolved, overlapped, codecIO>>

NextRaster == Rasterize

SpecRaster == InitRaster /\ [][NextRaster]_vars

(* ------------------------ steps, as seen in the state ------------------ *)

\* A handleEdit call has passed validation: a new suspended call appears.
EditEntered == \E r \in editRuns' : r \notin editRuns /\ r.stage = "encode"

\* A handleUpscale call has issued upscaleImage: a new suspended call appears.
UpscaleIssued == \E r \in upscaleRuns' : r \notin upscaleRuns

\* A stage has cleared state: both outputs absent, not loading.
StageCleared(loading, image, message) ==
  loading = FALSE /\ image = Null /\ message = Null

(* -------------------------------- claims ------------------------------- *)

\* C1: immediately after a handleEdit call passes validation, whatever the
\* state before (an upscale call may be in flight), the edit stage is loading
\* with no result and no error, and the upscale stage is fully cleared: not
\* loading, no result, no error.
C1_EditEntryClearsUpscaleStage ==
  [][EditEntered =>
       /\ isLoading' = TRUE /\ editedImage' = Null /\ error' = Null
       /\ StageCleared(isUpscaling', upscaledImage', upscaleError')]_vars

\* An edit run started after the one the held upscaled image was derived
\* from: it is suspended, or its result is the edited image held.
LaterEditStarted ==
  \/ \E r \in editRuns : r.id > upscaledFrom.run
  \/ editedFrom.run > upscaledFrom.run

\* C2: re-running the edit invalidates a stale upscale: an upscaled image
\* derived from the result of an edit run is never held once a later edit
\* run has started, under every interleaving of the handlers and the
\* completions.
C2_NoStaleUpscaleAfterEdit == upscaledImage # Null => ~LaterEditStarted

\* C3: immediately after handleFileChange with a file, whatever the state
\* before, the file is the source, the crop is absent, and both stages are
\* fully cleared: not loading, no result, no error.  (Stated for the steps
\* that bring in another file than the current one: only handleFileChange
\* takes such a step.)
C3_FileChangeResetsPipeline ==
  [][\A f \in Files \ {originalImage} : handleFileChange(f) =>
       /\ originalImage' = f
       /\ completedCrop' = NoCrop
       /\ StageCleared(isLoading', editedImage', error')
       /\ StageCleared(isUpscaling', upscaledImage', upscaleError')]_vars

\* C4: a held edited image and a held upscaled image are always derived from
\* the file that is the current source, also when the remote call that
\* produced them was issued before the source was replaced.
C4_ResultsFromCurrentSource ==
  /\ editedImage # Null => editedFrom.file = originalImage
  /\ upscaledImage # Null => upscaledFrom.file = originalImage

\* C5 as stated: a stage that is loading holds no result and no error.
C5_LoadingHoldsNothing ==
  /\ isLoading => editedImage = Null /\ error = Null
  /\ isUpscaling => upscaledImage = Null /\ upscaleError = Null

\* C5, amended: a stage that is loading holds no result, and the only error
\* it can hold is the message of a validation failure raised by a call to
\* that stage's handler while it was loading.
C5_LoadingHoldsNoResult ==
  /\ isLoading => editedImage = Null /\ error \in {Null, MsgNoPrompt}
  /\ isUpscaling => upscaledImage = Null /\ upscaleError \in {Null, MsgNothingToUpscale}

\* The amended C5 at work: a loading stage showing a validation message.
C5_Witness ==
  \/ isLoading /\ error = MsgNoPrompt /\ editRuns # {}
  \/ isUpscaling /\ upscaleError = MsgNothingToUpscale /\ upscaleRuns # {}

FailureShown(message, fallback, shown, loading) ==
  /\ shown = (IF message \in {Undefined, Null, EmptyString} THEN fallback ELSE message)
  /\ shown \notin {Undefined, Null, EmptyString}
  /\ loading = FALSE

\* C8: when a started run ends in a failure -- the encoding of the input
\* (getCroppedImg or fileToBase64), the decoding of the edited image, or the
\* remote call, with or without a message -- its stage shows a non-empty
\* error (the failure's message, else the stage's fallback), is not loading,
\* and the run is over.
C8_FailuresCaught ==
  [][/\ \A r \in editRuns \ editRuns' :
          /\ r.stage = "encode" => \A o \in EncodeOutcomes(r) :
               (~o.ok /\ EditEncoded(r, o)) =>
                 /\ FailureShown(o.message, MsgEditFallback, error', isLoading')
                 /\ \A q \in editRuns' : q.id # r.id
          /\ r.stage = "remote" => \A o \in RemoteOutcomes :
               (~o.ok /\ EditSettled(r, o)) =>
                 /\ FailureShown(o.message, MsgEditFallback, error', isLoading')
                 /\ \A q \in editRuns' : q.id # r.id
     /\ \A r \in upscaleRuns \ upscaleRuns' : \A o \in RemoteOutcomes :
          (~o.ok /\ UpscaleSettled(r, o)) =>
            /\ FailureShown(o.message, MsgUpscaleFallback, upscaleError', isUpscaling')
            /\ \A q \in upscaleRuns' : q.id # r.id
     /\ (/\ UNCHANGED <<inputVars, editVars, editRuns>>
         /\ editedImage # Null /\ ~DecodeDataUri(editedImage, Null).ok
         /\ handleUpscale) =>
            /\ FailureShown(MsgInvalidFormat, MsgUpscaleFallback, upscaleError', isUpscaling')
            /\ upscaleRuns' = upscaleRuns]_vars

\* An edit run has failed without a message: the fallback is shown.
C8_Witness == error = MsgEditFallback /\ ~isLoading /\ editRuns = {}

\* Some step of handleUpscale: the call or the completion of its remote call.
UpscaleStep ==
  \/ handleUpscale
  \/ \E r \in upscaleRuns \ upscaleRuns' : \E o \in RemoteOutcomes : UpscaleSettled(r, o)

\* Some step of handleEdit other than its entry: a failed validation, or a
\* completion.
EditLaterStep ==
  \/ (originalImage = Null \/ prompt = EmptyString) /\ handleEdit
  \/ \E r \in editRuns \ editRuns' :
       \/ r.stage = "encode" /\ \E o \in EncodeOutcomes(r) : EditEncoded(r, o)
       \/ r.stage = "remote" /\ \E o \in RemoteOutcomes : EditSettled(r, o)

\* C9: no step of handleUpscale changes the edit stage, the prompt, the
\* source image or the crop; no completion and no failed validation of
\* handleEdit changes the upscale stage.  (A step that changes any of them
\* is not such a step.)
C9_StagesFramed ==
  [][/\ \/ UNCHANGED <<isLoading, editedImage, error, prompt, originalImage, completedCrop>>
        \/ ~UpscaleStep
     /\ \/ UNCHANGED <<isUpscaling, upscaledImage, upscaleError>>
        \/ ~EditLaterStep]_vars

\* An upscale has run to success beside an edit stage holding a result and
\* a message.
C9_Witness == upscaledImage # Null /\ editedImage # Null /\ error = MsgNoPrompt

\* C10: upscaleImage is called only when an edited image is held and some
\* editImage call has resolved before; its arguments are the payload and
\* the MIME type of that edited image: the text after the comma and the
\* type between "data:" and ";", which for a stored edit result is PNG and
\* the bytes editImage resolved with.
C10_UpscaleAfterEdit ==
  [][UpscaleIssued =>
       /\ editedImage # Null
       /\ editSucceeded
       /\ \A r \in upscaleRuns' \ upscaleRuns :
            /\ r.base64 = SplitData(editedImage)
            /\ r.mimeType = MimeOf(SplitHeader(editedImage))
            /\ r.mimeType = PNG
            /\ PngDataUri(r.base64) = editedImage]_vars

\* An upscaleImage call is in flight on the edited image held.
C10_Witness ==
  \E r \in upscaleRuns : editedImage # Null /\ r.edit = editedFrom.run

\* C11: a handleEdit call that passes validation awaits exactly one of
\* getCroppedImg and fileToBase64, once: getCroppedImg if and only if, at
\* the call, a crop is held with width > 0 and height > 0 and the preview
\* image is mounted, on that crop; otherwise fileToBase64, on the file that
\* is the source at the call.  editImage is then called with a value that
\* path resolved with and the prompt of the call, whatever the prompt, the
\* crop and the source have become since.
C11_InputSelection ==
  [][/\ \A r \in editRuns' \ editRuns :
          r.stage = "encode" =>
            /\ r.path \in {"crop", "file"}
            /\ r.path = "crop" <=>
                 /\ completedCrop.defined /\ imgRef
                 /\ completedCrop.width > 0 /\ completedCrop.height > 0
            /\ r.path = "crop" => r.crop = completedCrop
            /\ r.file = originalImage
            /\ r.prompt = prompt
            /\ \A q \in editRuns : q.id # r.id
     /\ \A q \in editRuns' \ editRuns :
          q.stage = "remote" =>
            /\ \E r \in editRuns \ editRuns' :
                 /\ r.stage = "encode"
                 /\ q = [r EXCEPT !.stage = "remote", !.img = q.img]
            /\ q.img.ok
            /\ IF q.path = "crop"
               THEN /\ \E u \in CanvasDataUrls : q.img = getCroppedImg(q.crop, TRUE, u)
                    /\ q.img \notin FileToBase64Outcomes(q.file)
               ELSE q.img \in FileToBase64Outcomes(q.file)
     /\ \A a, b \in editRuns' : a.id = b.id => a = b]_vars

\* Two editImage calls in flight, one on a rasterised crop and one on the
\* raw file, the first with a prompt that has been changed since.
C11_Witness ==
  \E a, b \in editRuns :
    /\ a.stage = "remote" /\ a.path = "crop" /\ a.prompt # prompt
    /\ b.stage = "remote" /\ b.path = "file"

\* C12: when a stage is invoked again while an earlier run of it is in
\* flight, every run that resolves stores its own result, whether or not a
\* run started after it has resolved already: the result held once both are
\* over is that of the run that resolved last.
C12_LastCompletionWins ==
  [][/\ \A r \in editRuns \ editRuns' :
          r.stage = "remote" => \A o \in RemoteOutcomes :
            (o.ok /\ EditSettled(r, o)) =>
              /\ editedImage' = PngDataUri(o.bytes)
              /\ editedFrom'.run = r.id
              /\ error' = error
     /\ \A r \in upscaleRuns \ upscaleRuns' : \A o \in RemoteOutcomes :
          (o.ok /\ UpscaleSettled(r, o)) =>
            /\ upscaledImage' = PngDataUri(o.bytes)
            /\ lastResolved'.upscaledBy = r.id
            /\ upscaleError' = upscaleError]_vars

\* Both overlapping upscale runs are over, and the upscaled image held is
\* that of the one started first, although the one started after it had
\* resolved before.
C12_Witness ==
  /\ upscaleRuns = {} /\ ~isUpscaling
  /\ upscaledImage # Null
  /\ lastResolved.upscaledBy < lastResolved.upscale

\* C13: provided every awaited encoding and remote call settles and only
\* finitely many runs are started, a stage that is loading stops loading,
\* and in the step in which it stops it holds a result or a non-empty error.
C13_LoadingEnds ==
  /\ isLoading ~> ~isLoading
  /\ isUpscaling ~> ~isUpscaling
  /\ [][/\ (isLoading /\ ~isLoading') => (editedImage' # Null \/ Truthy(error'))
        /\ (isUpscaling /\ ~isUpscaling') =>
             (upscaledImage' # Null \/ Truthy(upscaleError'))]_vars

\* Both stages have loaded and stopped: the edit stage with a result, the
\* upscale stage with an error, and no call is left in flight.
C13_Witness ==
  /\ ~isLoading /\ ~isUpscaling /\ editRuns = {} /\ upscaleRuns = {}
  /\ editedImage # Null /\ lastResolved.edit > 0
  /\ upscaledImage = Null /\ upscaleError = MsgUpscaleFallback

\* The parts of a text as the claims speak of them.
HasComma(u) == \E k \in 1..Len(u) : u[k] = ","
FirstComma(u) == CHOOSE k \in 1..Len(u) : u[k] = "," /\ \A j \in 1..(k - 1) : u[j] # ","
EmptyPayload(u) == FirstComma(u) = Len(u) \/ u[FirstComma(u) + 1] = ","
HasTypeSegment(u) ==
  \E a, b \in 1..(FirstComma(u) - 1) : a < b /\ u[a] = ":" /\ u[b] = ";"

\* C14: a handleUpscale call on an edited image whose text has no comma,
\* nothing before the first comma, or nothing between the first comma and
\* the next one (or the end) issues no upscaleImage call and ends with the
\* "invalid format" message and isUpscaling false; on any other text the
\* call is issued, with the PNG type when the header has no ":type;" part.
C14_UpscaleDecoding ==
  [][(editedImage \notin {Null, Undefined, EmptyString} /\ handleUpscale) =>
       IF ~HasComma(editedImage) \/ FirstComma(editedImage) = 1
          \/ EmptyPayload(editedImage)
       THEN /\ upscaleRuns' = upscaleRuns
            /\ upscaleError' = MsgInvalidFormat
            /\ isUpscaling' = FALSE
       ELSE /\ \E r \in upscaleRuns' : r \notin upscaleRuns
            /\ ~HasTypeSegment(editedImage) =>
                 \A r \in upscaleRuns' \ upscaleRuns : r.mimeType = PNG]_vars

\* A call on an edited image without a comma has ended with the "invalid
\* format" message.
C14_Witness ==
  /\ editedImage # Null /\ ~HasComma(editedImage)
  /\ upscaleError = MsgInvalidFormat /\ ~isUpscaling /\ upscaleRuns = {}

\* C15: for every non-empty payload and every MIME type, splitting the data
\* URI built from them gives back exactly that payload and that type.
C15_CodecRoundTrip ==
  codecIO.stage = "decoded" =>
    /\ codecIO.out.ok
    /\ codecIO.out.base64 = codecIO.bytes
    /\ codecIO.out.mimeType = codecIO.mime

\* C16: for every crop with width > 0 and height > 0 and every displayed
\* image, getCroppedImg allocates a canvas of the crop's width by its
\* height and draws into it, at (0, 0) and at that size, the rectangle of
\* the natural image at (x * scaleX, y * scaleY) of size (width * scaleX,
\* height * scaleY), with scaleX = naturalWidth / width of the image and
\* scaleY likewise: crop (10, 10, 100, 50) on an 800 x 600 image displayed
\* at 400 x 300 draws (20, 20, 200, 100) into 100 x 50.  Without a 2d
\* context it fails and draws nothing.
C16_RasterGeometry ==
  rasterIO.stage = "drawn" =>
    LET c == rasterIO.crop
        i == rasterIO.image
        d == rasterIO.canvas
    IN IF ~rasterIO.ctx
       THEN ~d.drawn /\ ~rasterIO.out.ok
       ELSE /\ d.canvasWidth * SubPixels = c.width
            /\ d.canvasHeight * SubPixels = c.height
            /\ d.drawn
            /\ d.dx = 0 /\ d.dy = 0 /\ d.dw = c.width /\ d.dh = c.height
            /\ d.sx.n * SubPixels * i.width = c.x * i.naturalWidth * d.sx.d
            /\ d.sy.n * SubPixels * i.height = c.y * i.naturalHeight * d.sy.d
            /\ d.sw.n * SubPixels * i.width = c.width * i.naturalWidth * d.sw.d
            /\ d.sh.n * SubPixels * i.height = c.height * i.naturalHeight * d.sh.d
            /\ ( /\ c = [x |-> Px(10), y |-> Px(10), width |-> Px(100), height |-> Px(50)]
                 /\ i.naturalWidth = 800 /\ i.width = 400 ) =>
                   /\ <<d.sx, d.sy, d.sw, d.sh>> = <<Rat(20, 1), Rat(20, 1), Rat(200, 1), Rat(100, 1)>>
                   /\ <<d.canvasWidth, d.canvasHeight>> = <<100, 50>>

\* C17: handleClearCrop, in any state (a call of either stage may be in
\* flight), leaves no crop and changes neither the source image, nor the
\* prompt, nor any field of the two stages; an edit call in flight that
\* has taken the crop path keeps the crop it was called with.
C17_ClearCropFramed ==
  [][handleClearCrop =>
       /\ completedCrop' = NoCrop
       /\ UNCHANGED <<originalImage, prompt>>
       /\ UNCHANGED <<editedImage, isLoading, error>>
       /\ UNCHANGED <<upscaledImage, isUpscaling, upscaleError>>
       /\ editRuns' = editRuns /\ upscaleRuns' = upscaleRuns
       /\ \A r \in editRuns' :
            r.path = "crop" =>
              /\ r.crop.width > 0 /\ r.crop.height > 0
              /\ r.stage = "encode" => EncodeOutcomes(r) = CroppedImgOutcomes[r.crop]]_vars

\* The crop has been cleared while an edit call that rasterises a crop is
\* suspended and the edit stage shows a message.
C17_Witness ==
  /\ completedCrop = NoCrop
  /\ error = MsgNoPrompt
  /\ \E r \in editRuns : r.path = "crop" /\ r.stage = "encode" /\ r.file = originalImage

\* C18: with the handlers called through the rendered controls only, at
\* most one handleEdit call and at most one handleUpscale call is suspended
\* at any time (so at most one editImage and one upscaleImage call is in
\* flight), and while one is, its stage's control is disabled.
C18_OneRunPerStage ==
  /\ Cardinality(editRuns) <= 1
  /\ Cardinality(upscaleRuns) <= 1
  /\ editRuns # {} => ~EditButtonEnabled
  /\ upscaleRuns # {} => ~UpscaleButtonEnabled

\* An editImage call and an upscaleImage call are in flight at once, one of
\* each.
C18_Witness ==
  /\ \E r \in editRuns : r.stage = "remote"
  /\ Cardinality(upscaleRuns) = 1

\* C19 as stated: each stage's flag is true exactly when a call of that
\* stage is suspended, also when two calls of the stage overlap.
C19_FlagTracksRuns ==
  /\ isLoading <=> editRuns # {}
  /\ isUpscaling <=> upscaleRuns # {}

\* A suspended call of the stage is over: its run is gone.
EditCompleted == \E r \in editRuns : \A q \in editRuns' : q.id # r.id
UpscaleCompleted == \E r \in upscaleRuns : r \notin upscaleRuns'

\* C19, amended: a stage's flag is true only while a call of that stage is
\* suspended; every call that passes validation sets it and every call that
\* ends resets it, whether or not another call of the stage is still
\* suspended; nothing else resets it (for the upscale stage, a call ending
\* on a decoding failure included).
C19_FlagSetAndReset ==
  /\ [](isLoading => editRuns # {})
  /\ [](isUpscaling => upscaleRuns # {})
  /\ [][/\ EditEntered => isLoading'
        /\ UpscaleIssued => isUpscaling'
        /\ EditCompleted => ~isLoading'
        /\ UpscaleCompleted => ~isUpscaling'
        /\ (isLoading /\ ~isLoading') => EditCompleted
        /\ (isUpscaling /\ ~isUpscaling') =>
             \/ UpscaleCompleted
             \/ ~UpscaleInput.ok /\ upscaleError' = MsgInvalidFormat]_vars

\* Two upscale calls have overlapped: one is over and has reset the flag,
\* the other is still suspended.
C19_Witness == ~isUpscaling /\ upscaleRuns # {} /\ upscaledImage # Null

\* C20 as stated: no stage holds a result and a non-empty error at once.
C20_ResultOrError ==
  /\ ~(editedImage # Null /\ Truthy(error))
  /\ ~(upscaledImage # Null /\ Truthy(upscaleError))

\* C20, amended: a stage holds a result and a non-empty error at once only
\* when the error is the message of a failed validation of that stage's
\* handler (which keeps the result), or when a call of the stage has passed
\* validation while another call of the stage was suspended.
C20_ResultAndErrorOnlyBy ==
  /\ (editedImage # Null /\ Truthy(error)) =>
       error = MsgNoPrompt \/ overlapped.edit
  /\ (upscaledImage # Null /\ Truthy(upscaleError)) =>
       upscaleError = MsgNothingToUpscale \/ overlapped.upscale

\* After overlapping edit calls of which one failed and one resolved, the
\* edit stage holds the result and the failure's message.
C20_Witness ==
  /\ editedImage # Null /\ error = <<"request failed">>
  /\ overlapped.edit /\ editRuns = {}

=============================================================================
